---- MODULE Spec2Model ----
(***************************************************************************)
(* Model of the Hangul word composer (src/src/compose.rs) and of the jamo  *)
(* tables and block codec it uses (src/src/chars.rs).                      *)
(*                                                                         *)
(* A Rust char is modelled by its Unicode code point, an Option<char> by a *)
(* sequence of length at most one, an enum value by a record whose first   *)
(* field names the variant.                                                *)
(***************************************************************************)
EXTENDS Integers, Sequences, FiniteSets, TLC

(***************************************************************************)
(* The Hangul compatibility jamo the string constants of chars.rs hold.    *)
(***************************************************************************)
J_G == 12593    \* ㄱ
J_GG == 12594    \* ㄲ
J_GS == 12595    \* ㄳ
J_N == 12596    \* ㄴ
J_NJ == 12597    \* ㄵ
J_NH == 12598    \* ㄶ
J_D == 12599    \* ㄷ
J_DD == 12600    \* ㄸ
J_R == 12601    \* ㄹ
J_RG == 12602    \* ㄺ
J_RM == 12603    \* ㄻ
J_RB == 12604    \* ㄼ
J_RS == 12605    \* ㄽ
J_RT == 12606    \* ㄾ
J_RP == 12607    \* ㄿ
J_RH == 12608    \* ㅀ
J_M == 12609    \* ㅁ
J_B == 12610    \* ㅂ
J_BB == 12611    \* ㅃ
J_BS == 12612    \* ㅄ
J_S == 12613    \* ㅅ
J_SS == 12614    \* ㅆ
J_NG == 12615    \* ㅇ
J_J == 12616    \* ㅈ
J_JJ == 12617    \* ㅉ
J_CH == 12618    \* ㅊ
J_K == 12619    \* ㅋ
J_T == 12620    \* ㅌ
J_P == 12621    \* ㅍ
J_H == 12622    \* ㅎ
J_A == 12623    \* ㅏ
J_AE == 12624    \* ㅐ
J_YA == 12625    \* ㅑ
J_YAE == 12626    \* ㅒ
J_EO == 12627    \* ㅓ
J_E == 12628    \* ㅔ
J_YEO == 12629    \* ㅕ
J_YE == 12630    \* ㅖ
J_O == 12631    \* ㅗ
J_WA == 12632    \* ㅘ
J_WAE == 12633    \* ㅙ
J_OE == 12634    \* ㅚ
J_YO == 12635    \* ㅛ
J_U == 12636    \* ㅜ
J_WO == 12637    \* ㅝ
J_WE == 12638    \* ㅞ
J_WI == 12639    \* ㅟ
J_YU == 12640    \* ㅠ
J_EU == 12641    \* ㅡ
J_UI == 12642    \* ㅢ
J_I == 12643    \* ㅣ

\* 'A', the non-Hangul character of tests::push_char_non_hangul
LATIN_A == 65

CONSONANTS ==
    {J_B, J_J, J_D, J_G, J_S, J_M, J_N, J_NG, J_R, J_H, J_K, J_T, J_CH, J_P}

COMPOSITE_CONSONANTS ==
    {J_GG, J_DD, J_BB, J_SS, J_JJ, J_NJ, J_RG, J_BS, J_GS, J_NH, J_RM, J_RB,
     J_RS, J_RT, J_RP, J_RH}

INITIAL_COMPOSITE_CONSONANTS ==
    {J_GG, J_DD, J_BB, J_SS, J_JJ}

FINAL_COMPOSITE_CONSONANTS ==
    {J_GG, J_NJ, J_RG, J_BS, J_SS, J_GS, J_NH, J_RM, J_RB, J_RS, J_RT, J_RP,
     J_RH}

VOWELS ==
    {J_YO, J_YEO, J_YA, J_AE, J_E, J_YAE, J_YE, J_O, J_EO, J_A, J_I, J_YU,
     J_U, J_EU}

COMPOSITE_VOWELS ==
    {J_WA, J_WAE, J_OE, J_WO, J_WE, J_WI, J_UI}

\* Jamo arithmetic
S_BASE == 44032
L_BASE == 4352
V_BASE == 4449
T_BASE == 4519
L_COUNT == 19
V_COUNT == 21
T_COUNT == 28
N_COUNT ==
    V_COUNT * T_COUNT

\* the largest Unicode scalar value and the surrogate range: what
\* std::char::from_u32 refuses
CHAR_MAX == 1114111
SURROGATE_FIRST == 55296
SURROGATE_LAST == 57343

(***************************************************************************)
(* Option<T>                                                               *)
(***************************************************************************)
None ==
    << >>

Some(x) ==
    << x >>

(***************************************************************************)
(* chars.rs: Letter and HangulLetter                                       *)
(***************************************************************************)
Consonant(c) ==
    [variant |-> "Consonant", ch |-> c]

CompositeConsonant(c) ==
    [variant |-> "CompositeConsonant", ch |-> c]

Vowel(c) ==
    [variant |-> "Vowel", ch |-> c]

CompositeVowel(c) ==
    [variant |-> "CompositeVowel", ch |-> c]

LetterHangul(hl) ==
    [tag |-> "Hangul", letter |-> hl]

LetterNonHangul(c) ==
    [tag |-> "NonHangul", ch |-> c]

(***************************************************************************)
(* chars.rs: the combination tables                                        *)
(***************************************************************************)
\* consonant_doubles that looks at the pending consonant only
consonant_doubles_ignores_second(c1, c2) ==
    CASE c1 = J_G -> Some(J_GG)
      [] c1 = J_D -> Some(J_DD)
      [] c1 = J_B -> Some(J_BB)
      [] c1 = J_S -> Some(J_SS)
      [] c1 = J_J -> Some(J_JJ)
      [] OTHER -> None

consonant_doubles(c1, c2) ==
    CASE c1 = J_G /\ c2 = J_G -> Some(J_GG)
      [] c1 = J_D /\ c2 = J_D -> Some(J_DD)
      [] c1 = J_B /\ c2 = J_B -> Some(J_BB)
      [] c1 = J_S /\ c2 = J_S -> Some(J_SS)
      [] c1 = J_J /\ c2 = J_J -> Some(J_JJ)
      [] OTHER -> None

\* composite_final that fuses a pair in either order
composite_final_either_order(c1, c2) ==
    CASE {c1, c2} = {J_G} -> Some(J_GG)
      [] {c1, c2} = {J_N, J_J} -> Some(J_NJ)
      [] {c1, c2} = {J_R, J_G} -> Some(J_RG)
      [] {c1, c2} = {J_B, J_S} -> Some(J_BS)
      [] {c1, c2} = {J_S} -> Some(J_SS)
      [] {c1, c2} = {J_G, J_S} -> Some(J_GS)
      [] {c1, c2} = {J_N, J_H} -> Some(J_NH)
      [] {c1, c2} = {J_R, J_M} -> Some(J_RM)
      [] {c1, c2} = {J_R, J_B} -> Some(J_RB)
      [] {c1, c2} = {J_R, J_S} -> Some(J_RS)
      [] {c1, c2} = {J_R, J_T} -> Some(J_RT)
      [] {c1, c2} = {J_R, J_P} -> Some(J_RP)
      [] {c1, c2} = {J_R, J_H} -> Some(J_RH)
      [] OTHER -> None

composite_final(c1, c2) ==
    CASE c1 = J_G /\ c2 = J_G -> Some(J_GG)
      [] c1 = J_N /\ c2 = J_J -> Some(J_NJ)
      [] c1 = J_R /\ c2 = J_G -> Some(J_RG)
      [] c1 = J_B /\ c2 = J_S -> Some(J_BS)
      [] c1 = J_S /\ c2 = J_S -> Some(J_SS)
      [] c1 = J_G /\ c2 = J_S -> Some(J_GS)
      [] c1 = J_N /\ c2 = J_H -> Some(J_NH)
      [] c1 = J_R /\ c2 = J_M -> Some(J_RM)
      [] c1 = J_R /\ c2 = J_B -> Some(J_RB)
      [] c1 = J_R /\ c2 = J_S -> Some(J_RS)
      [] c1 = J_R /\ c2 = J_T -> Some(J_RT)
      [] c1 = J_R /\ c2 = J_P -> Some(J_RP)
      [] c1 = J_R /\ c2 = J_H -> Some(J_RH)
      [] OTHER -> None

\* composite_vowel that fuses a pair in either order
composite_vowel_either_order(v1, v2) ==
    CASE {v1, v2} = {J_O, J_A} -> Some(J_WA)
      [] {v1, v2} = {J_O, J_AE} -> Some(J_WAE)
      [] {v1, v2} = {J_O, J_I} -> Some(J_OE)
      [] {v1, v2} = {J_U, J_EO} -> Some(J_WO)
      [] {v1, v2} = {J_U, J_E} -> Some(J_WE)
      [] {v1, v2} = {J_U, J_I} -> Some(J_WI)
      [] {v1, v2} = {J_EU, J_I} -> Some(J_UI)
      [] OTHER -> None

composite_vowel(v1, v2) ==
    CASE v1 = J_O /\ v2 = J_A -> Some(J_WA)
      [] v1 = J_O /\ v2 = J_AE -> Some(J_WAE)
      [] v1 = J_O /\ v2 = J_I -> Some(J_OE)
      [] v1 = J_U /\ v2 = J_EO -> Some(J_WO)
      [] v1 = J_U /\ v2 = J_E -> Some(J_WE)
      [] v1 = J_U /\ v2 = J_I -> Some(J_WI)
      [] v1 = J_EU /\ v2 = J_I -> Some(J_UI)
      [] OTHER -> None

\* determine_hangul of a draft that knows no compound vowels
determine_hangul_no_composite_vowel(c) ==
    IF c \in CONSONANTS THEN LetterHangul(Consonant(c))
    ELSE IF c \in VOWELS THEN LetterHangul(Vowel(c))
    ELSE IF c \in COMPOSITE_CONSONANTS THEN LetterHangul(CompositeConsonant(c))
    ELSE LetterNonHangul(c)

determine_hangul(c) ==
    IF c \in CONSONANTS THEN LetterHangul(Consonant(c))
    ELSE IF c \in VOWELS THEN LetterHangul(Vowel(c))
    ELSE IF c \in COMPOSITE_CONSONANTS THEN LetterHangul(CompositeConsonant(c))
    ELSE IF c \in COMPOSITE_VOWELS THEN LetterHangul(CompositeVowel(c))
    ELSE LetterNonHangul(c)

\* is_valid_double_initial looking the character up among the compound finals
is_valid_double_initial_among_finals(c) ==
    c \in FINAL_COMPOSITE_CONSONANTS

\* is_valid_double_initial looking the character up in the wrong string
is_valid_double_initial_any_composite(c) ==
    c \in COMPOSITE_CONSONANTS

is_valid_double_initial(c) ==
    c \in INITIAL_COMPOSITE_CONSONANTS

\* is_valid_composite_final that takes the doubled consonants ㄲ and ㅆ for
\* initials only
is_valid_composite_final_no_doubles(c) ==
    c \in FINAL_COMPOSITE_CONSONANTS \ {J_GG, J_SS}

\* is_valid_composite_final looking the character up in the wrong string
is_valid_composite_final_any_composite(c) ==
    c \in COMPOSITE_CONSONANTS

is_valid_composite_final(c) ==
    c \in FINAL_COMPOSITE_CONSONANTS

(***************************************************************************)
(* chars.rs: HangulBlock and its codec                                     *)
(***************************************************************************)
HangulBlock(i, v, f) ==
    [initial |-> i, vowel |-> v, final_optional |-> f]

\* HangulBlock::to_char: Some(code point), or None where the Rust code
\* aborts: the unwrap of a from_u32 that refuses the value, or a u32
\* subtraction below zero (which aborts in a build with overflow checks; no
\* character of the jamo sets lies below a base, so no letter the classifier
\* produces takes that branch).
to_char(block) ==
    LET initial_num == block.initial
        vowel_num == block.vowel
        final_num == IF block.final_optional = None
                     THEN 0
                     ELSE block.final_optional[1]
        l_index == initial_num - L_BASE
        v_index == vowel_num - V_BASE
        t_index == IF final_num = 0 THEN 0 ELSE final_num - T_BASE
        s_index == (l_index * N_COUNT) + (v_index * T_COUNT) + t_index
        code == S_BASE + s_index
    IN  IF l_index < 0 \/ v_index < 0 \/ t_index < 0 THEN None
        ELSE IF code > CHAR_MAX THEN None
        ELSE IF code >= SURROGATE_FIRST /\ code <= SURROGATE_LAST THEN None
        ELSE Some(code)

\* hangul_blocks_vec_to_string: the characters of the blocks in order, or
\* None when a to_char aborts.
RECURSIVE hangul_blocks_vec_to_string(_)
hangul_blocks_vec_to_string(blocks) ==
    IF blocks = << >> THEN Some(<< >>)
    ELSE LET head == to_char(Head(blocks))
             rest == hangul_blocks_vec_to_string(Tail(blocks))
         IN  IF head = None \/ rest = None THEN None
             ELSE Some(<< head[1] >> \o rest[1])

(***************************************************************************)
(* compose.rs: BlockCompositionState and WordCompositionState              *)
(***************************************************************************)
ExpectingInitial ==
    [shape |-> "ExpectingInitial"]

ExpectingDoubleInitialOrVowel(i) ==
    [shape |-> "ExpectingDoubleInitialOrVowel", i |-> i]

ExpectingVowel(i) ==
    [shape |-> "ExpectingVowel", i |-> i]

ExpectingCompositeVowelOrFinal(i, v) ==
    [shape |-> "ExpectingCompositeVowelOrFinal", i |-> i, v |-> v]

ExpectingFinal(i, v) ==
    [shape |-> "ExpectingFinal", i |-> i, v |-> v]

ExpectingCompositeFinalOrNextBlock(i, v, f) ==
    [shape |-> "ExpectingCompositeFinalOrNextBlock", i |-> i, v |-> v, f |-> f]

ExpectingNextBlock(i, v, f) ==
    [shape |-> "ExpectingNextBlock", i |-> i, v |-> v, f |-> f]

Composable ==
    [kind |-> "Composable"]

StartNewBlock(letter) ==
    [kind |-> "StartNewBlock", letter |-> letter]

InvalidHangul(letter) ==
    [kind |-> "InvalidHangul", letter |-> letter]

NonHangul(c) ==
    [kind |-> "NonHangul", ch |-> c]

\* Result<(), String> of start_new_block and complete_current_block
Ok ==
    [kind |-> "Ok"]

Err(msg) ==
    [kind |-> "Err", msg |-> msg]

\* Result<String, String> of as_string; Panic is the abort of the unwrap in
\* HangulBlock::to_char
OkString(s) ==
    [kind |-> "OkString", value |-> s]

Panic ==
    [kind |-> "Panic"]

\* what a push hands back: the live state it leaves and the disposition
Pushed(cur, ret) ==
    [cur_block |-> cur, ret |-> ret]

(***************************************************************************)
(* compose.rs: the four entry points of the state machine                  *)
(***************************************************************************)
\* push_consonant that lets a consonant take the place of a closed compound
\* final
push_consonant_replaces_closed_final(cur, c) ==
    CASE cur.shape = "ExpectingInitial" ->
            Pushed(ExpectingDoubleInitialOrVowel(c), Composable)
      [] cur.shape = "ExpectingDoubleInitialOrVowel" ->
            LET double == consonant_doubles(cur.i, c)
            IN  IF double # None
                THEN Pushed(ExpectingVowel(double[1]), Composable)
                ELSE Pushed(cur, InvalidHangul(Consonant(c)))
      [] cur.shape = "ExpectingVowel" ->
            Pushed(cur, InvalidHangul(Consonant(c)))
      [] cur.shape = "ExpectingCompositeVowelOrFinal" ->
            Pushed(ExpectingCompositeFinalOrNextBlock(cur.i, cur.v, c), Composable)
      [] cur.shape = "ExpectingFinal" ->
            Pushed(ExpectingCompositeFinalOrNextBlock(cur.i, cur.v, c), Composable)
      [] cur.shape = "ExpectingCompositeFinalOrNextBlock" ->
            LET composite == composite_final(cur.f, c)
            IN  IF composite # None
                THEN Pushed(ExpectingNextBlock(cur.i, cur.v, composite[1]), Composable)
                ELSE Pushed(cur, StartNewBlock(Consonant(c)))
      [] cur.shape = "ExpectingNextBlock" ->
            Pushed(ExpectingCompositeFinalOrNextBlock(cur.i, cur.v, c), Composable)

\* push_consonant that closes the block with the first final after a
\* compound vowel
push_consonant_closes_after_compound_vowel(cur, c) ==
    CASE cur.shape = "ExpectingInitial" ->
            Pushed(ExpectingDoubleInitialOrVowel(c), Composable)
      [] cur.shape = "ExpectingDoubleInitialOrVowel" ->
            LET double == consonant_doubles(cur.i, c)
            IN  IF double # None
                THEN Pushed(ExpectingVowel(double[1]), Composable)
                ELSE Pushed(cur, InvalidHangul(Consonant(c)))
      [] cur.shape = "ExpectingVowel" ->
            Pushed(cur, InvalidHangul(Consonant(c)))
      [] cur.shape = "ExpectingCompositeVowelOrFinal" ->
            Pushed(ExpectingCompositeFinalOrNextBlock(cur.i, cur.v, c), Composable)
      [] cur.shape = "ExpectingFinal" ->
            Pushed(ExpectingNextBlock(cur.i, cur.v, c), Composable)
      [] cur.shape = "ExpectingCompositeFinalOrNextBlock" ->
            LET composite == composite_final(cur.f, c)
            IN  IF composite # None
                THEN Pushed(ExpectingNextBlock(cur.i, cur.v, composite[1]), Composable)
                ELSE Pushed(cur, StartNewBlock(Consonant(c)))
      [] cur.shape = "ExpectingNextBlock" ->
            Pushed(cur, StartNewBlock(Consonant(c)))

\* push_consonant that refuses a consonant after a closed compound final
push_consonant_refuses_after_compound_final(cur, c) ==
    CASE cur.shape = "ExpectingInitial" ->
            Pushed(ExpectingDoubleInitialOrVowel(c), Composable)
      [] cur.shape = "ExpectingDoubleInitialOrVowel" ->
            LET double == consonant_doubles(cur.i, c)
            IN  IF double # None
                THEN Pushed(ExpectingVowel(double[1]), Composable)
                ELSE Pushed(cur, InvalidHangul(Consonant(c)))
      [] cur.shape = "ExpectingVowel" ->
            Pushed(cur, InvalidHangul(Consonant(c)))
      [] cur.shape = "ExpectingCompositeVowelOrFinal" ->
            Pushed(ExpectingCompositeFinalOrNextBlock(cur.i, cur.v, c), Composable)
      [] cur.shape = "ExpectingFinal" ->
            Pushed(ExpectingCompositeFinalOrNextBlock(cur.i, cur.v, c), Composable)
      [] cur.shape = "ExpectingCompositeFinalOrNextBlock" ->
            LET composite == composite_final(cur.f, c)
            IN  IF composite # None
                THEN Pushed(ExpectingNextBlock(cur.i, cur.v, composite[1]), Composable)
                ELSE Pushed(cur, StartNewBlock(Consonant(c)))
      [] cur.shape = "ExpectingNextBlock" ->
            Pushed(cur, InvalidHangul(Consonant(c)))

push_consonant(cur, c) ==
    CASE cur.shape = "ExpectingInitial" ->
            Pushed(ExpectingDoubleInitialOrVowel(c), Composable)
      [] cur.shape = "ExpectingDoubleInitialOrVowel" ->
            LET double == consonant_doubles(cur.i, c)
            IN  IF double # None
                THEN Pushed(ExpectingVowel(double[1]), Composable)
                ELSE Pushed(cur, InvalidHangul(Consonant(c)))
      [] cur.shape = "ExpectingVowel" ->
            Pushed(cur, InvalidHangul(Consonant(c)))
      [] cur.shape = "ExpectingCompositeVowelOrFinal" ->
            Pushed(ExpectingCompositeFinalOrNextBlock(cur.i, cur.v, c), Composable)
      [] cur.shape = "ExpectingFinal" ->
            Pushed(ExpectingCompositeFinalOrNextBlock(cur.i, cur.v, c), Composable)
      [] cur.shape = "ExpectingCompositeFinalOrNextBlock" ->
            LET composite == composite_final(cur.f, c)
            IN  IF composite # None
                THEN Pushed(ExpectingNextBlock(cur.i, cur.v, composite[1]), Composable)
                ELSE Pushed(cur, StartNewBlock(Consonant(c)))
      [] cur.shape = "ExpectingNextBlock" ->
            Pushed(cur, StartNewBlock(Consonant(c)))

\* push_composite_consonant that hands a legal initial back before it tries
\* it as a final
push_composite_consonant_prefers_new_block(cur, c) ==
    CASE cur.shape = "ExpectingInitial" ->
            IF is_valid_double_initial(c)
            THEN Pushed(ExpectingVowel(c), Composable)
            ELSE Pushed(cur, InvalidHangul(CompositeConsonant(c)))
      [] cur.shape \in {"ExpectingCompositeVowelOrFinal", "ExpectingFinal"} ->
            IF is_valid_double_initial(c)
            THEN Pushed(cur, StartNewBlock(CompositeConsonant(c)))
            ELSE IF is_valid_composite_final(c)
            THEN Pushed(ExpectingNextBlock(cur.i, cur.v, c), Composable)
            ELSE Pushed(cur, InvalidHangul(CompositeConsonant(c)))
      [] cur.shape = "ExpectingNextBlock" ->
            IF is_valid_double_initial(c)
            THEN Pushed(cur, StartNewBlock(CompositeConsonant(c)))
            ELSE Pushed(cur, InvalidHangul(CompositeConsonant(c)))
      [] OTHER ->
            Pushed(cur, InvalidHangul(CompositeConsonant(c)))

\* push_composite_consonant that takes any compound consonant as a first
\* letter
push_composite_consonant_unchecked_initial(cur, c) ==
    CASE cur.shape = "ExpectingInitial" ->
            Pushed(ExpectingVowel(c), Composable)
      [] cur.shape = "ExpectingCompositeVowelOrFinal" ->
            IF is_valid_composite_final(c)
            THEN Pushed(ExpectingNextBlock(cur.i, cur.v, c), Composable)
            ELSE IF is_valid_double_initial(c)
            THEN Pushed(cur, StartNewBlock(CompositeConsonant(c)))
            ELSE Pushed(cur, InvalidHangul(CompositeConsonant(c)))
      [] cur.shape = "ExpectingFinal" ->
            IF is_valid_composite_final(c)
            THEN Pushed(ExpectingNextBlock(cur.i, cur.v, c), Composable)
            ELSE IF is_valid_double_initial(c)
            THEN Pushed(cur, StartNewBlock(CompositeConsonant(c)))
            ELSE Pushed(cur, InvalidHangul(CompositeConsonant(c)))
      [] cur.shape = "ExpectingNextBlock" ->
            IF is_valid_double_initial(c)
            THEN Pushed(cur, StartNewBlock(CompositeConsonant(c)))
            ELSE Pushed(cur, InvalidHangul(CompositeConsonant(c)))
      [] OTHER ->
            Pushed(cur, InvalidHangul(CompositeConsonant(c)))

push_composite_consonant(cur, c) ==
    CASE cur.shape = "ExpectingInitial" ->
            IF is_valid_double_initial(c)
            THEN Pushed(ExpectingVowel(c), Composable)
            ELSE Pushed(cur, InvalidHangul(CompositeConsonant(c)))
      [] cur.shape = "ExpectingCompositeVowelOrFinal" ->
            IF is_valid_composite_final(c)
            THEN Pushed(ExpectingNextBlock(cur.i, cur.v, c), Composable)
            ELSE IF is_valid_double_initial(c)
            THEN Pushed(cur, StartNewBlock(CompositeConsonant(c)))
            ELSE Pushed(cur, InvalidHangul(CompositeConsonant(c)))
      [] cur.shape = "ExpectingFinal" ->
            IF is_valid_composite_final(c)
            THEN Pushed(ExpectingNextBlock(cur.i, cur.v, c), Composable)
            ELSE IF is_valid_double_initial(c)
            THEN Pushed(cur, StartNewBlock(CompositeConsonant(c)))
            ELSE Pushed(cur, InvalidHangul(CompositeConsonant(c)))
      [] cur.shape = "ExpectingNextBlock" ->
            IF is_valid_double_initial(c)
            THEN Pushed(cur, StartNewBlock(CompositeConsonant(c)))
            ELSE Pushed(cur, InvalidHangul(CompositeConsonant(c)))
      [] OTHER ->
            Pushed(cur, InvalidHangul(CompositeConsonant(c)))

\* push_vowel that keeps waiting for a vowel after it has fused two
push_vowel_stays_after_fusion(cur, c) ==
    CASE cur.shape = "ExpectingInitial" ->
            Pushed(cur, InvalidHangul(Vowel(c)))
      [] cur.shape = "ExpectingDoubleInitialOrVowel" ->
            Pushed(ExpectingCompositeVowelOrFinal(cur.i, c), Composable)
      [] cur.shape = "ExpectingVowel" ->
            Pushed(ExpectingCompositeVowelOrFinal(cur.i, c), Composable)
      [] cur.shape = "ExpectingCompositeVowelOrFinal" ->
            LET composite == composite_vowel(cur.v, c)
            IN  IF composite # None
                THEN Pushed(ExpectingCompositeVowelOrFinal(cur.i, composite[1]),
                            Composable)
                ELSE Pushed(cur, InvalidHangul(Vowel(c)))
      [] cur.shape = "ExpectingFinal" ->
            Pushed(cur, InvalidHangul(Vowel(c)))
      [] cur.shape = "ExpectingCompositeFinalOrNextBlock" ->
            Pushed(cur, StartNewBlock(Vowel(c)))
      [] cur.shape = "ExpectingNextBlock" ->
            Pushed(cur, StartNewBlock(Vowel(c)))

push_vowel(cur, c) ==
    CASE cur.shape = "ExpectingInitial" ->
            Pushed(cur, InvalidHangul(Vowel(c)))
      [] cur.shape = "ExpectingDoubleInitialOrVowel" ->
            Pushed(ExpectingCompositeVowelOrFinal(cur.i, c), Composable)
      [] cur.shape = "ExpectingVowel" ->
            Pushed(ExpectingCompositeVowelOrFinal(cur.i, c), Composable)
      [] cur.shape = "ExpectingCompositeVowelOrFinal" ->
            LET composite == composite_vowel(cur.v, c)
            IN  IF composite # None
                THEN Pushed(ExpectingFinal(cur.i, composite[1]), Composable)
                ELSE Pushed(cur, InvalidHangul(Vowel(c)))
      [] cur.shape = "ExpectingFinal" ->
            Pushed(cur, InvalidHangul(Vowel(c)))
      [] cur.shape = "ExpectingCompositeFinalOrNextBlock" ->
            Pushed(cur, StartNewBlock(Vowel(c)))
      [] cur.shape = "ExpectingNextBlock" ->
            Pushed(cur, StartNewBlock(Vowel(c)))

\* push_composite_vowel that lets a compound vowel take the place of a plain
\* vowel already held
push_composite_vowel_replaces_vowel(cur, c) ==
    CASE cur.shape = "ExpectingDoubleInitialOrVowel" ->
            Pushed(ExpectingFinal(cur.i, c), Composable)
      [] cur.shape = "ExpectingVowel" ->
            Pushed(ExpectingFinal(cur.i, c), Composable)
      [] cur.shape = "ExpectingCompositeVowelOrFinal" ->
            Pushed(ExpectingFinal(cur.i, c), Composable)
      [] cur.shape = "ExpectingCompositeFinalOrNextBlock" ->
            Pushed(cur, StartNewBlock(CompositeVowel(c)))
      [] cur.shape = "ExpectingNextBlock" ->
            Pushed(cur, StartNewBlock(CompositeVowel(c)))
      [] OTHER ->
            Pushed(cur, InvalidHangul(CompositeVowel(c)))

\* push_composite_vowel that still waits for a second vowel
push_composite_vowel_awaits_fusion(cur, c) ==
    CASE cur.shape = "ExpectingDoubleInitialOrVowel" ->
            Pushed(ExpectingCompositeVowelOrFinal(cur.i, c), Composable)
      [] cur.shape = "ExpectingVowel" ->
            Pushed(ExpectingCompositeVowelOrFinal(cur.i, c), Composable)
      [] cur.shape = "ExpectingCompositeFinalOrNextBlock" ->
            Pushed(cur, StartNewBlock(CompositeVowel(c)))
      [] cur.shape = "ExpectingNextBlock" ->
            Pushed(cur, StartNewBlock(CompositeVowel(c)))
      [] OTHER ->
            Pushed(cur, InvalidHangul(CompositeVowel(c)))

push_composite_vowel(cur, c) ==
    CASE cur.shape = "ExpectingDoubleInitialOrVowel" ->
            Pushed(ExpectingFinal(cur.i, c), Composable)
      [] cur.shape = "ExpectingVowel" ->
            Pushed(ExpectingFinal(cur.i, c), Composable)
      [] cur.shape = "ExpectingCompositeFinalOrNextBlock" ->
            Pushed(cur, StartNewBlock(CompositeVowel(c)))
      [] cur.shape = "ExpectingNextBlock" ->
            Pushed(cur, StartNewBlock(CompositeVowel(c)))
      [] OTHER ->
            Pushed(cur, InvalidHangul(CompositeVowel(c)))

\* push that clears the live block when it hands a letter back
push_resets_on_start_new_block(cur, letter) ==
    LET r == CASE letter.variant = "Consonant" -> push_consonant(cur, letter.ch)
               [] letter.variant = "CompositeConsonant" ->
                     push_composite_consonant(cur, letter.ch)
               [] letter.variant = "Vowel" -> push_vowel(cur, letter.ch)
               [] letter.variant = "CompositeVowel" ->
                     push_composite_vowel(cur, letter.ch)
    IN  IF r.ret.kind = "StartNewBlock"
        THEN Pushed(ExpectingInitial, r.ret)
        ELSE r

push(cur, letter) ==
    CASE letter.variant = "Consonant" -> push_consonant(cur, letter.ch)
      [] letter.variant = "CompositeConsonant" -> push_composite_consonant(cur, letter.ch)
      [] letter.variant = "Vowel" -> push_vowel(cur, letter.ch)
      [] letter.variant = "CompositeVowel" -> push_composite_vowel(cur, letter.ch)

push_char(cur, c) ==
    LET l == determine_hangul(c)
    IN  IF l.tag = "Hangul"
        THEN push(cur, l.letter)
        ELSE Pushed(cur, NonHangul(l.ch))

(***************************************************************************)
(* compose.rs: finalization, restart and rendering                         *)
(***************************************************************************)
\* what an operation on the whole composer hands back
Composer(prev, cur, ret) ==
    [prev_blocks |-> prev, cur_block |-> cur, ret |-> ret]

\* complete_current_block that takes a final only from ExpectingNextBlock
complete_current_block_drops_final(prev, cur) ==
    LET i == IF cur.shape = "ExpectingInitial" THEN None ELSE Some(cur.i)
        v == IF cur.shape \in {"ExpectingInitial", "ExpectingDoubleInitialOrVowel",
                               "ExpectingVowel"}
             THEN None ELSE Some(cur.v)
        f == IF cur.shape = "ExpectingNextBlock" THEN Some(cur.f) ELSE None
    IN  IF i # None /\ v # None
        THEN Composer(Append(prev, HangulBlock(i[1], v[1], f)), cur, Ok)
        ELSE Composer(prev, cur,
                      Err("Cannot complete current block: incomplete block state"))

\* complete_current_block that assigns the vector instead of pushing to it
complete_current_block_overwrites(prev, cur) ==
    LET i == IF cur.shape = "ExpectingInitial" THEN None ELSE Some(cur.i)
        v == IF cur.shape \in {"ExpectingInitial", "ExpectingDoubleInitialOrVowel",
                               "ExpectingVowel"}
             THEN None ELSE Some(cur.v)
        f == IF cur.shape \in {"ExpectingNextBlock",
                               "ExpectingCompositeFinalOrNextBlock"}
             THEN Some(cur.f) ELSE None
    IN  IF i # None /\ v # None
        THEN Composer(<< HangulBlock(i[1], v[1], f) >>, cur, Ok)
        ELSE Composer(prev, cur,
                      Err("Cannot complete current block: incomplete block state"))

complete_current_block(prev, cur) ==
    LET i == IF cur.shape = "ExpectingInitial" THEN None ELSE Some(cur.i)
        v == IF cur.shape \in {"ExpectingInitial", "ExpectingDoubleInitialOrVowel",
                               "ExpectingVowel"}
             THEN None ELSE Some(cur.v)
        f == IF cur.shape \in {"ExpectingNextBlock",
                               "ExpectingCompositeFinalOrNextBlock"}
             THEN Some(cur.f) ELSE None
    IN  IF i # None /\ v # None
        THEN Composer(Append(prev, HangulBlock(i[1], v[1], f)), cur, Ok)
        ELSE Composer(prev, cur,
                      Err("Cannot complete current block: incomplete block state"))

\* start_new_block that finishes the block and forgets the seed of the next
start_new_block_forgets_seed(prev, cur, letter) ==
    CASE letter.variant = "Consonant" ->
            LET done == complete_current_block(prev, cur)
            IN  IF done.ret # Ok THEN done
                ELSE Composer(done.prev_blocks, ExpectingInitial, Ok)
      [] letter.variant = "CompositeConsonant" ->
            IF is_valid_double_initial(letter.ch)
            THEN LET done == complete_current_block(prev, cur)
                 IN  IF done.ret # Ok THEN done
                     ELSE Composer(done.prev_blocks, ExpectingInitial, Ok)
            ELSE Composer(prev, cur,
                     Err("Cannot start new block with invalid initial consonant"))
      [] OTHER ->
            Composer(prev, cur,
                     Err("Cannot start new block with non-consonant letter"))

\* start_new_block without the is_valid_double_initial test
start_new_block_any_composite(prev, cur, letter) ==
    CASE letter.variant \in {"Consonant", "CompositeConsonant"} ->
            LET done == complete_current_block(prev, cur)
            IN  IF done.ret # Ok THEN done
                ELSE Composer(done.prev_blocks,
                              IF letter.variant = "Consonant"
                              THEN ExpectingDoubleInitialOrVowel(letter.ch)
                              ELSE ExpectingVowel(letter.ch), Ok)
      [] OTHER ->
            Composer(prev, cur,
                     Err("Cannot start new block with non-consonant letter"))

\* start_new_block that re-seeds the live block before it completes the
\* current one
start_new_block_reseeds_first(prev, cur, letter) ==
    CASE letter.variant = "Consonant" ->
            LET done == complete_current_block(prev, cur)
            IN  Composer(done.prev_blocks,
                         ExpectingDoubleInitialOrVowel(letter.ch), done.ret)
      [] letter.variant = "CompositeConsonant" ->
            IF is_valid_double_initial(letter.ch)
            THEN LET done == complete_current_block(prev, cur)
                 IN  Composer(done.prev_blocks, ExpectingVowel(letter.ch), done.ret)
            ELSE Composer(prev, cur,
                     Err("Cannot start new block with invalid initial consonant"))
      [] OTHER ->
            Composer(prev, cur,
                     Err("Cannot start new block with non-consonant letter"))

start_new_block(prev, cur, letter) ==
    CASE letter.variant = "Consonant" ->
            LET done == complete_current_block(prev, cur)
            IN  IF done.ret # Ok THEN done
                ELSE Composer(done.prev_blocks,
                              ExpectingDoubleInitialOrVowel(letter.ch), Ok)
      [] letter.variant = "CompositeConsonant" ->
            IF is_valid_double_initial(letter.ch)
            THEN LET done == complete_current_block(prev, cur)
                 IN  IF done.ret # Ok THEN done
                     ELSE Composer(done.prev_blocks, ExpectingVowel(letter.ch), Ok)
            ELSE Composer(prev, cur,
                     Err("Cannot start new block with invalid initial consonant"))
      [] OTHER ->
            Composer(prev, cur,
                     Err("Cannot start new block with non-consonant letter"))

\* Some(Some(char)) for a live block that renders, Some(None) for none,
\* None where to_char aborts
current_block_to_string(cur) ==
    CASE cur.shape = "ExpectingInitial" -> Some(None)
      [] cur.shape \in {"ExpectingDoubleInitialOrVowel", "ExpectingVowel"} ->
            Some(Some(cur.i))
      [] cur.shape \in {"ExpectingCompositeVowelOrFinal", "ExpectingFinal"} ->
            LET block_char == to_char(HangulBlock(cur.i, cur.v, None))
            IN  IF block_char = None THEN None ELSE Some(block_char)
      [] cur.shape \in {"ExpectingCompositeFinalOrNextBlock", "ExpectingNextBlock"} ->
            LET block_char == to_char(HangulBlock(cur.i, cur.v, Some(cur.f)))
            IN  IF block_char = None THEN None ELSE Some(block_char)

\* as_string and current_block_to_string are written against a to_char and
\* a hangul_blocks_vec_to_string that return a Result; those of chars.rs
\* return the value itself and abort instead, which is what Panic stands for.
as_string(prev, cur) ==
    LET result == hangul_blocks_vec_to_string(prev)
    IN  IF result = None THEN Panic
        ELSE LET cur_as_char == current_block_to_string(cur)
             IN  IF cur_as_char = None THEN Panic
                 ELSE OkString(result[1] \o cur_as_char[1])

(***************************************************************************)
(* The composer as a state machine                                         *)
(***************************************************************************)
VARIABLES
    prev_blocks,    \* HangulWordComposer.prev_blocks
    cur_block,      \* HangulWordComposer.cur_block
    call,           \* the last call made on the composer, with its argument
    result,         \* what that call returned
    harness         \* tests::run_string_test_cases: its input and position

vars ==
    << prev_blocks, cur_block, call, result, harness >>

\* the most jamo a composer is let to hold (finished blocks and live block)
MaxJamo == 5

\* the longest input, besides the two scenarios, the test harness is run on
MaxScript == 2

\* the characters callers type: plain consonants that double (ㄱ) and do not
\* (ㄹ), that fuse as finals (ㄹㄱ, ㄱㄱ) and do not (ㄱㄹ); a compound
\* consonant legal as initial and final (ㄲ), as initial only (ㄸ), as final
\* only (ㄽ); plain vowels that fuse (ㅗㅏ) and do not (ㅏㅗ); a compound
\* vowel (ㅘ); a character that is no jamo ('A')
Chars ==
    {J_G, J_R, J_GG, J_DD, J_RS, J_O, J_A, J_WA, LATIN_A}

\* the classified letters of those characters
Letters ==
    {Consonant(c) : c \in Chars \cap CONSONANTS}
        \cup {CompositeConsonant(c) : c \in Chars \cap COMPOSITE_CONSONANTS}
        \cup {Vowel(c) : c \in Chars \cap VOWELS}
        \cup {CompositeVowel(c) : c \in Chars \cap COMPOSITE_VOWELS}

\* the jamo characters a composer holds
JamoHeld(prev, cur) ==
    2 * Len(prev)
        + Cardinality({k \in DOMAIN prev : prev[k].final_optional # None})
        + (CASE cur.shape = "ExpectingInitial" -> 0
             [] cur.shape \in {"ExpectingDoubleInitialOrVowel", "ExpectingVowel"} -> 1
             [] cur.shape \in {"ExpectingCompositeVowelOrFinal", "ExpectingFinal"} -> 2
             [] OTHER -> 3)

Constructed ==
    [kind |-> "Constructed"]

NoHarness ==
    [input |-> << >>, pos |-> 1, pc |-> "idle"]

\* HangulWordComposer::new_word
new_word ==
    /\ prev_blocks = << >>
    /\ cur_block = ExpectingInitial
    /\ call = [op |-> "new_word"]
    /\ result = Constructed

Init ==
    /\ new_word
    /\ harness = NoHarness

CallPush(letter) ==
    LET r == push(cur_block, letter)
    IN  /\ JamoHeld(prev_blocks, r.cur_block) <= MaxJamo
        /\ cur_block' = r.cur_block
        /\ result' = r.ret
        /\ call' = [op |-> "push", letter |-> letter]
        /\ UNCHANGED << prev_blocks, harness >>

CallPushChar(c) ==
    LET r == push_char(cur_block, c)
    IN  /\ JamoHeld(prev_blocks, r.cur_block) <= MaxJamo
        /\ cur_block' = r.cur_block
        /\ result' = r.ret
        /\ call' = [op |-> "push_char", ch |-> c]
        /\ UNCHANGED << prev_blocks, harness >>

CallStartNewBlock(letter) ==
    LET r == start_new_block(prev_blocks, cur_block, letter)
    IN  /\ JamoHeld(r.prev_blocks, r.cur_block) <= MaxJamo
        /\ prev_blocks' = r.prev_blocks
        /\ cur_block' = r.cur_block
        /\ result' = r.ret
        /\ call' = [op |-> "start_new_block", letter |-> letter]
        /\ UNCHANGED harness

\* as_string that takes the live block out of the composer as it renders it
CallAsString_takes_live_block ==
    /\ result' = as_string(prev_blocks, cur_block)
    /\ call' = [op |-> "as_string"]
    /\ cur_block' = ExpectingInitial
    /\ UNCHANGED << prev_blocks, harness >>

CallAsString ==
    /\ result' = as_string(prev_blocks, cur_block)
    /\ call' = [op |-> "as_string"]
    /\ UNCHANGED << prev_blocks, cur_block, harness >>

Next ==
    \/ \E letter \in Letters : CallPush(letter)
    \/ \E c \in Chars : CallPushChar(c)
    \/ \E letter \in Letters : CallStartNewBlock(letter)
    \/ CallAsString

Spec ==
    Init /\ [][Next]_vars

(***************************************************************************)
(* tests::run_string_test_cases: push_char each character of the input,    *)
(* start_new_block with the returned letter on every StartNewBlock (its    *)
(* result dropped), then as_string                                         *)
(***************************************************************************)
\* ㅇ ㅏ ㄴ ㄴ ㅕ ㅇ ㅎ ㅏ ㅅ ㅔ ㅇ ㅛ
Scenario1 ==
    << J_NG, J_A, J_N, J_N, J_YEO, J_NG, J_H, J_A, J_S, J_E, J_NG, J_YO >>

\* ㅇ ㅓ ㅂ ㅅ ㅇ ㅓ ㅇ ㅛ
Scenario2 ==
    << J_NG, J_EO, J_B, J_S, J_NG, J_EO, J_NG, J_YO >>

Scripts ==
    {Scenario1, Scenario2}
        \cup UNION {[1..n -> Chars] : n \in 0..MaxScript}

InitRun ==
    /\ new_word
    /\ harness \in {[input |-> s, pos |-> 1, pc |-> "push"] : s \in Scripts}

RunPushChar ==
    /\ harness.pc = "push"
    /\ harness.pos <= Len(harness.input)
    /\ LET c == harness.input[harness.pos]
           r == push_char(cur_block, c)
       IN  /\ cur_block' = r.cur_block
           /\ result' = r.ret
           /\ call' = [op |-> "push_char", ch |-> c]
           /\ harness' = [harness EXCEPT
                             !.pos = @ + 1,
                             !.pc = IF r.ret.kind = "StartNewBlock"
                                    THEN "start" ELSE "push"]
    /\ UNCHANGED prev_blocks

RunStartNewBlock ==
    /\ harness.pc = "start"
    /\ LET new_c == result.letter
           r == start_new_block(prev_blocks, cur_block, new_c)
       IN  /\ prev_blocks' = r.prev_blocks
           /\ cur_block' = r.cur_block
           /\ result' = r.ret
           /\ call' = [op |-> "start_new_block", letter |-> new_c]
    /\ harness' = [harness EXCEPT !.pc = "push"]

RunAsString ==
    /\ harness.pc = "push"
    /\ harness.pos > Len(harness.input)
    /\ result' = as_string(prev_blocks, cur_block)
    /\ call' = [op |-> "as_string"]
    /\ harness' = [harness EXCEPT !.pc = "done"]
    /\ UNCHANGED << prev_blocks, cur_block >>

NextRun ==
    \/ RunPushChar
    \/ RunStartNewBlock
    \/ RunAsString

SpecRun ==
    InitRun /\ [][NextRun]_vars

(***************************************************************************)
(* Vocabulary of the properties                                            *)
(***************************************************************************)
Jamo ==
    CONSONANTS \cup COMPOSITE_CONSONANTS \cup VOWELS \cup COMPOSITE_VOWELS

\* a letter that may begin a block: a plain consonant or one of ㄲㄸㅃㅆㅉ
LegalInitial(letter) ==
    \/ letter.variant = "Consonant" /\ letter.ch \in CONSONANTS
    \/ letter.variant = "CompositeConsonant"
            /\ letter.ch \in {J_GG, J_DD, J_BB, J_SS, J_JJ}

IsVowelLetter(letter) ==
    letter.variant \in {"Vowel", "CompositeVowel"}

\* the letter a character of one of the four jamo sets stands for
ClassOf(c) ==
    CASE c \in COMPOSITE_VOWELS -> CompositeVowel(c)
      [] c \in COMPOSITE_CONSONANTS -> CompositeConsonant(c)
      [] c \in VOWELS -> Vowel(c)
      [] c \in CONSONANTS -> Consonant(c)

HoldsVowel(cur) ==
    cur.shape \in {"ExpectingCompositeVowelOrFinal", "ExpectingFinal",
                   "ExpectingCompositeFinalOrNextBlock", "ExpectingNextBlock"}

HoldsFinal(cur) ==
    cur.shape \in {"ExpectingCompositeFinalOrNextBlock", "ExpectingNextBlock"}

\* the (initial, vowel, optional final) a live state with a vowel holds
HeldBlock(cur) ==
    HangulBlock(cur.i, cur.v, IF HoldsFinal(cur) THEN << cur.f >> ELSE << >>)

IsPrefix(s, t) ==
    /\ Len(s) <= Len(t)
    /\ \A k \in 1..Len(s) : s[k] = t[k]

IsPushCall(c) ==
    c.op \in {"push", "push_char"}

\* 안녕하세요
Annyeonghaseyo ==
    << 50504, 45397, 54616, 49464, 50836 >>

\* 없어요
Eopseoyo ==
    << 50630, 50612, 50836 >>

(***************************************************************************)
(* C1..C10                                                                 *)
(***************************************************************************)
\* C1: once the test harness has pushed every character of its input,
\* called start_new_block on every StartNewBlock and called as_string, the
\* string returned is 안녕하세요 for ㅇㅏㄴㄴㅕㅇㅎㅏㅅㅔㅇㅛ and 없어요 for
\* ㅇㅓㅂㅅㅇㅓㅇㅛ.
C1_ScenarioStrings ==
    harness.pc = "done" =>
        /\ harness.input = Scenario1 => result = OkString(Annyeonghaseyo)
        /\ harness.input = Scenario2 => result = OkString(Eopseoyo)

\* C2: a start_new_block called with the vowel letter that a push on
\* ExpectingCompositeFinalOrNextBlock(i, v, f) handed back as StartNewBlock
\* appends the block (i, v, no final) and leaves a live block whose initial
\* is f and whose vowel is the pushed vowel.
C2_FinalBecomesInitial ==
    [][ ( /\ IsPushCall(call)
          /\ result.kind = "StartNewBlock"
          /\ IsVowelLetter(result.letter)
          /\ cur_block.shape = "ExpectingCompositeFinalOrNextBlock"
          /\ call'.op = "start_new_block"
          /\ call'.letter = result.letter )
        => /\ prev_blocks' = Append(prev_blocks,
                                    HangulBlock(cur_block.i, cur_block.v, None))
           /\ cur_block' = IF result.letter.variant = "Vowel"
                           THEN ExpectingCompositeVowelOrFinal(cur_block.f,
                                                               result.letter.ch)
                           ELSE ExpectingFinal(cur_block.f, result.letter.ch)
      ]_vars

\* C3: a push or push_char that returns InvalidHangul or StartNewBlock
\* leaves the live block and the finished blocks as they were; a push that
\* changes the composer returned Composable.
C3_RejectedPushKeepsState ==
    [][ IsPushCall(call') =>
          /\ result'.kind \in {"InvalidHangul", "StartNewBlock"}
                => UNCHANGED << prev_blocks, cur_block >>
          /\ << prev_blocks, cur_block >>' # << prev_blocks, cur_block >>
                => result' = Composable
      ]_vars

C3_Witness ==
    /\ call.op = "push"
    /\ result = InvalidHangul(Consonant(J_R))
    /\ cur_block = ExpectingDoubleInitialOrVowel(J_G)

\* C4: push_char of a character outside the four jamo sets returns
\* NonHangul(that character) and changes neither the live block nor the
\* finished blocks; push_char of a character of one of the four sets
\* returns, and does to the live block, what push of the letter it stands
\* for does.
C4_PushCharClassifies ==
    [][ call'.op = "push_char" =>
          LET c == call'.ch
          IN  IF c \notin Jamo
              THEN /\ result' = NonHangul(c)
                   /\ UNCHANGED << prev_blocks, cur_block >>
              ELSE /\ result' = push(cur_block, ClassOf(c)).ret
                   /\ cur_block' = push(cur_block, ClassOf(c)).cur_block
                   /\ UNCHANGED prev_blocks
      ]_vars

C4_Witness ==
    /\ call = [op |-> "push_char", ch |-> LATIN_A]
    /\ result = NonHangul(LATIN_A)
    /\ cur_block = ExpectingCompositeVowelOrFinal(J_G, J_A)

\* what a push on live state cur that rejected letter may have returned
C5Rule(cur, letter, kind) ==
    /\ kind = "StartNewBlock"
            => \/ LegalInitial(letter)
               \/ IsVowelLetter(letter) /\ HoldsFinal(cur)
    /\ (~LegalInitial(letter) /\ ~IsVowelLetter(letter))
            => kind = "InvalidHangul"
    /\ (IsVowelLetter(letter) /\ ~HoldsFinal(cur))
            => kind = "InvalidHangul"

\* C5 as stated: a push returns StartNewBlock(letter) only for a letter that
\* is a legal block-initial, and a rejected letter that is not a legal
\* block-initial gets InvalidHangul.
C5_StartNewBlockOnlyLegalInitial ==
    (IsPushCall(call) /\ result.kind \in {"StartNewBlock", "InvalidHangul"})
        => /\ result.kind = "StartNewBlock" => LegalInitial(result.letter)
           /\ ~LegalInitial(result.letter) => result.kind = "InvalidHangul"

\* C5 amended: a push returns StartNewBlock(letter) only for a letter that is
\* a legal block-initial or for a vowel (plain or compound) pushed on a live
\* state that holds a final consonant; a rejected compound consonant that is
\* not a legal block-initial gets InvalidHangul, and so does a vowel
\* rejected on a live state that holds no final consonant.
\* It is stated of the push that was made and, in the state reached, of the
\* push of each of the 51 jamo.
C5_StartNewBlockLegalInitialOrVowel ==
    /\ (IsPushCall(call) /\ result.kind \in {"StartNewBlock", "InvalidHangul"})
            => C5Rule(cur_block, result.letter, result.kind)
    /\ \A c \in Jamo :
            LET ret == push(cur_block, ClassOf(c)).ret
            IN  /\ ret.kind \in {"Composable", "StartNewBlock", "InvalidHangul"}
                /\ ret.kind # "Composable"
                        => /\ ret.letter = ClassOf(c)
                           /\ C5Rule(cur_block, ClassOf(c), ret.kind)

C5_Witness ==
    /\ call.op = "push"
    /\ result = StartNewBlock(Vowel(J_A))
    /\ cur_block = ExpectingNextBlock(J_GG, J_O, J_RG)

\* C6: a start_new_block(letter) that succeeds appends exactly one block,
\* the (initial, vowel, optional final) the live state held, and leaves the
\* live state ExpectingDoubleInitialOrVowel(c) for a plain consonant c and
\* ExpectingVowel(c) for a compound consonant c.
C6_StartNewBlockAppendsHeldBlock ==
    [][ (call'.op = "start_new_block" /\ result' = Ok) =>
          /\ HoldsVowel(cur_block)
          /\ prev_blocks' = prev_blocks \o << HeldBlock(cur_block) >>
          /\ cur_block' = IF call'.letter.variant = "Consonant"
                          THEN ExpectingDoubleInitialOrVowel(call'.letter.ch)
                          ELSE ExpectingVowel(call'.letter.ch)
          /\ LegalInitial(call'.letter)
      ]_vars

C6_Witness ==
    /\ call = [op |-> "start_new_block", letter |-> CompositeConsonant(J_DD)]
    /\ result = Ok
    /\ prev_blocks = << HangulBlock(J_G, J_A, << J_R >>) >>
    /\ cur_block = ExpectingVowel(J_DD)

\* C7: start_new_block(letter) succeeds exactly when letter is a legal
\* block-initial and the live state holds an initial and a vowel; a letter
\* that is no legal block-initial gets the invalid-seed error in every live
\* state, and a legal seed on a live state without a vowel gets the
\* incomplete-block error.
C7_StartNewBlockSucceedsIff ==
    [][ call'.op = "start_new_block" =>
          LET legal == LegalInitial(call'.letter)
          IN  /\ result' = Ok <=> (legal /\ HoldsVowel(cur_block))
              /\ ~legal =>
                    result' = IF call'.letter.variant = "CompositeConsonant"
                              THEN Err("Cannot start new block with invalid initial consonant")
                              ELSE Err("Cannot start new block with non-consonant letter")
              /\ (legal /\ ~HoldsVowel(cur_block)) =>
                    result' = Err("Cannot complete current block: incomplete block state")
      ]_vars

C7_Witness ==
    /\ call = [op |-> "start_new_block", letter |-> Consonant(J_R)]
    /\ result = Err("Cannot complete current block: incomplete block state")
    /\ cur_block = ExpectingVowel(J_GG)

\* C8: a start_new_block that returns an error leaves the finished blocks
\* and the live block as they were.
C8_FailedStartNewBlockKeepsState ==
    [][ (call'.op = "start_new_block" /\ result'.kind = "Err")
            => UNCHANGED << prev_blocks, cur_block >>
      ]_vars

C8_Witness ==
    /\ call = [op |-> "start_new_block", letter |-> Consonant(J_G)]
    /\ result.kind = "Err"
    /\ Len(prev_blocks) = 1
    /\ cur_block.shape = "ExpectingDoubleInitialOrVowel"

\* C9: every call leaves the finished blocks it found as a prefix of the
\* finished blocks it leaves; push, push_char and as_string leave them
\* equal, and start_new_block adds at most one block.
C9_FinishedBlocksAppendOnly ==
    [][ /\ IsPrefix(prev_blocks, prev_blocks')
        /\ Len(prev_blocks') <= Len(prev_blocks) + 1
        /\ call'.op \in {"push", "push_char", "as_string"}
                => prev_blocks' = prev_blocks
      ]_vars

C9_Witness ==
    /\ call.op = "start_new_block"
    /\ result = Ok
    /\ Len(prev_blocks) = 2
    /\ prev_blocks[1] # prev_blocks[2]

\* C10 as stated: every finished block has a plain consonant as initial, a
\* plain vowel as vowel, and no final or a plain or compound final
\* consonant.
C10_FinishedBlocksPlain ==
    \A k \in DOMAIN prev_blocks :
        /\ prev_blocks[k].initial \in CONSONANTS
        /\ prev_blocks[k].vowel \in VOWELS
        /\ \/ prev_blocks[k].final_optional = None
           \/ prev_blocks[k].final_optional[1]
                \in CONSONANTS \cup FINAL_COMPOSITE_CONSONANTS

\* C10 amended: every finished block has as initial a plain consonant or one
\* of the doubled consonants ㄲㄸㅃㅆㅉ, as vowel a plain or compound vowel,
\* and no final or a plain consonant or one of the thirteen compound finals.
C10_FinishedBlocksWellFormed ==
    \A k \in DOMAIN prev_blocks :
        /\ prev_blocks[k].initial \in CONSONANTS \cup {J_GG, J_DD, J_BB, J_SS, J_JJ}
        /\ prev_blocks[k].vowel \in VOWELS \cup COMPOSITE_VOWELS
        /\ \/ prev_blocks[k].final_optional = None
           \/ prev_blocks[k].final_optional[1]
                \in CONSONANTS \cup {J_GG, J_NJ, J_RG, J_BS, J_SS, J_GS, J_NH,
                                     J_RM, J_RB, J_RS, J_RT, J_RP, J_RH}

C10_Witness ==
    /\ prev_blocks = << HangulBlock(J_GG, J_WA, << J_RS >>) >>
    /\ cur_block = ExpectingDoubleInitialOrVowel(J_R)

(***************************************************************************)
(* The block codec on its own: to_char of chars.rs applied to any block of *)
(* legal jamo, and the decoding the specification sets against it (no      *)
(* decoder is among the sources; it is modelled from the specification's   *)
(* words)                                                                  *)
(***************************************************************************)
\* the jamo ordering tables of the syllable block: 19 initials, 21 vowels,
\* 27 finals (final index 0 is the absent final)
InitialOrder ==
    << J_G, J_GG, J_N, J_D, J_DD, J_R, J_M, J_B, J_BB, J_S, J_SS, J_NG, J_J,
       J_JJ, J_CH, J_K, J_T, J_P, J_H >>

VowelOrder ==
    << J_A, J_AE, J_YA, J_YAE, J_EO, J_E, J_YEO, J_YE, J_O, J_WA, J_WAE,
       J_OE, J_YO, J_U, J_WO, J_WE, J_WI, J_YU, J_EU, J_UI, J_I >>

FinalOrder ==
    << J_G, J_GG, J_GS, J_N, J_NJ, J_NH, J_D, J_R, J_RG, J_RM, J_RB, J_RS,
       J_RT, J_RP, J_RH, J_M, J_B, J_BS, J_S, J_SS, J_NG, J_J, J_CH, J_K,
       J_T, J_P, J_H >>

\* the number of syllable blocks, U+AC00..U+D7A3
SyllableCount ==
    L_COUNT * N_COUNT

OkChar(c) ==
    [kind |-> "OkChar", value |-> c]

OkBlock(block) ==
    [kind |-> "OkBlock", value |-> block]

\* decode: subtract the syllable base, split the remainder by /28 and /21,
\* map each index back through its ordering table; a code point outside the
\* syllable block range is a decode error
decode(ch) ==
    IF ch < S_BASE \/ ch >= S_BASE + SyllableCount
    THEN Err("not a syllable block")
    ELSE LET s_index == ch - S_BASE
             l_index == s_index \div N_COUNT
             v_index == (s_index % N_COUNT) \div T_COUNT
             t_index == s_index % T_COUNT
         IN  OkBlock(HangulBlock(InitialOrder[l_index + 1],
                                 VowelOrder[v_index + 1],
                                 IF t_index = 0 THEN None
                                 ELSE Some(FinalOrder[t_index])))

\* every block of legal jamo
CodecBlocks ==
    { HangulBlock(InitialOrder[l], VowelOrder[v], None) :
          l \in DOMAIN InitialOrder, v \in DOMAIN VowelOrder }
    \cup
    { HangulBlock(InitialOrder[l], VowelOrder[v], Some(FinalOrder[t])) :
          l \in DOMAIN InitialOrder, v \in DOMAIN VowelOrder,
          t \in DOMAIN FinalOrder }

\* code points handed to decode: the ends of the syllable block range, their
\* outer neighbours, and 안
CodecChars ==
    {S_BASE - 1, S_BASE, S_BASE + 6472, S_BASE + SyllableCount - 1,
     S_BASE + SyllableCount}

\* one application of the codec to one input: a block for to_char and for
\* the round trip, a code point for decode
InitCodec ==
    /\ new_word
    /\ \/ \E block \in CodecBlocks :
             harness = [input |-> << block >>, pos |-> 1, pc |-> "to_char"]
       \/ \E ch \in CodecChars :
             harness = [input |-> << ch >>, pos |-> 1, pc |-> "decode"]
       \/ \E block \in CodecBlocks :
             harness = [input |-> << block >>, pos |-> 1, pc |-> "round_trip"]

\* block.to_char()
CallToChar ==
    /\ harness.pc = "to_char"
    /\ harness.pos = 1
    /\ LET block == harness.input[1]
       IN  /\ call' = [op |-> "to_char", block |-> block]
           /\ result' = IF to_char(block) = None THEN Panic
                        ELSE OkChar(to_char(block)[1])
    /\ harness' = [harness EXCEPT !.pos = 2]
    /\ UNCHANGED << prev_blocks, cur_block >>

\* decode(ch)
CallDecode ==
    /\ harness.pc = "decode"
    /\ harness.pos = 1
    /\ call' = [op |-> "decode", ch |-> harness.input[1]]
    /\ result' = decode(harness.input[1])
    /\ harness' = [harness EXCEPT !.pos = 2]
    /\ UNCHANGED << prev_blocks, cur_block >>

\* decode(block.to_char())
CallRoundTrip ==
    /\ harness.pc = "round_trip"
    /\ harness.pos = 1
    /\ LET block == harness.input[1]
       IN  /\ call' = [op |-> "round_trip", block |-> block]
           /\ result' = IF to_char(block) = None THEN Panic
                        ELSE decode(to_char(block)[1])
    /\ harness' = [harness EXCEPT !.pos = 2]
    /\ UNCHANGED << prev_blocks, cur_block >>

NextCodec ==
    \/ CallToChar
    \/ CallDecode
    \/ CallRoundTrip

SpecCodec ==
    InitCodec /\ [][NextCodec]_vars

(***************************************************************************)
(* A caller that counts Composable dispositions: the count starts at 0 for *)
(* a new word and again when start_new_block succeeds                      *)
(***************************************************************************)
Counting(n) ==
    [input |-> << >>, pos |-> 1, pc |-> "counting", composable |-> n]

InitCount ==
    /\ new_word
    /\ harness = Counting(0)

CountPush(letter) ==
    LET r == push(cur_block, letter)
    IN  /\ harness.pc = "counting"
        /\ JamoHeld(prev_blocks, r.cur_block) <= MaxJamo
        /\ cur_block' = r.cur_block
        /\ result' = r.ret
        /\ call' = [op |-> "push", letter |-> letter]
        /\ harness' = Counting(harness.composable
                               + (IF r.ret = Composable THEN 1 ELSE 0))
        /\ UNCHANGED prev_blocks

CountPushChar(c) ==
    LET r == push_char(cur_block, c)
    IN  /\ harness.pc = "counting"
        /\ JamoHeld(prev_blocks, r.cur_block) <= MaxJamo
        /\ cur_block' = r.cur_block
        /\ result' = r.ret
        /\ call' = [op |-> "push_char", ch |-> c]
        /\ harness' = Counting(harness.composable
                               + (IF r.ret = Composable THEN 1 ELSE 0))
        /\ UNCHANGED prev_blocks

CountStartNewBlock(letter) ==
    LET r == start_new_block(prev_blocks, cur_block, letter)
    IN  /\ harness.pc = "counting"
        /\ JamoHeld(r.prev_blocks, r.cur_block) <= MaxJamo
        /\ prev_blocks' = r.prev_blocks
        /\ cur_block' = r.cur_block
        /\ result' = r.ret
        /\ call' = [op |-> "start_new_block", letter |-> letter]
        /\ harness' = IF r.ret = Ok THEN Counting(0) ELSE harness

NextCount ==
    \/ \E letter \in Letters : CountPush(letter)
    \/ \E c \in Chars : CountPushChar(c)
    \/ \E letter \in Letters : CountStartNewBlock(letter)

SpecCount ==
    InitCount /\ [][NextCount]_vars

(***************************************************************************)
(* C11..C20                                                                *)
(***************************************************************************)
\* the 19 initials, 21 vowels and 27 finals of a syllable block
LegalInitials ==
    {J_G, J_GG, J_N, J_D, J_DD, J_R, J_M, J_B, J_BB, J_S, J_SS, J_NG, J_J,
     J_JJ, J_CH, J_K, J_T, J_P, J_H}

AllVowels ==
    {J_A, J_AE, J_YA, J_YAE, J_EO, J_E, J_YEO, J_YE, J_O, J_WA, J_WAE, J_OE,
     J_YO, J_U, J_WO, J_WE, J_WI, J_YU, J_EU, J_UI, J_I}

LegalFinals ==
    {J_G, J_GG, J_GS, J_N, J_NJ, J_NH, J_D, J_R, J_RG, J_RM, J_RB, J_RS,
     J_RT, J_RP, J_RH, J_M, J_B, J_BS, J_S, J_SS, J_NG, J_J, J_CH, J_K, J_T,
     J_P, J_H}

\* C11: in every reachable state the live block and every finished block
\* hold as initial one of the 19 legal initials (the 14 plain consonants
\* and ㄲㄸㅃㅆㅉ), as vowel one of the 21 vowels (14 plain, 7 compound) and
\* as final nothing or one of the 27 legal finals (the 14 plain consonants
\* and the 13 compound finals).
C11_OnlyCodecJamoHeld ==
    /\ LegalInitials = CONSONANTS \cup INITIAL_COMPOSITE_CONSONANTS
    /\ Cardinality(LegalInitials) = 19
    /\ AllVowels = VOWELS \cup COMPOSITE_VOWELS
    /\ Cardinality(AllVowels) = 21
    /\ LegalFinals = CONSONANTS \cup FINAL_COMPOSITE_CONSONANTS
    /\ Cardinality(LegalFinals) = 27
    /\ cur_block.shape # "ExpectingInitial" => cur_block.i \in LegalInitials
    /\ HoldsVowel(cur_block) => cur_block.v \in AllVowels
    /\ HoldsFinal(cur_block) => cur_block.f \in LegalFinals
    /\ \A k \in DOMAIN prev_blocks :
          /\ prev_blocks[k].initial \in LegalInitials
          /\ prev_blocks[k].vowel \in AllVowels
          /\ Len(prev_blocks[k].final_optional) <= 1
          /\ \A n \in DOMAIN prev_blocks[k].final_optional :
                prev_blocks[k].final_optional[n] \in LegalFinals

C11_Witness ==
    /\ prev_blocks = << HangulBlock(J_G, J_A, None) >>
    /\ cur_block = ExpectingNextBlock(J_DD, J_WA, J_GG)

\* zero-based position of a jamo in an ordering table
IndexIn(table, c) ==
    (CHOOSE k \in DOMAIN table : table[k] = c) - 1

\* the syllable an encoding of the block has to give:
\* 0xAC00 + initialIndex*21*28 + vowelIndex*28 + finalIndex
Syllable(block) ==
    44032 + (IndexIn(InitialOrder, block.initial) * 21 * 28)
          + (IndexIn(VowelOrder, block.vowel) * 28)
          + (IF block.final_optional = None THEN 0
             ELSE IndexIn(FinalOrder, block.final_optional[1]) + 1)

\* C12: whenever to_char has been applied to a block of an initial among
\* the 19 legal initials, a vowel among the 21 vowels and a final absent or
\* among the 27 legal finals, it has not aborted and has returned the
\* character 0xAC00 + initialIndex*588 + vowelIndex*28 + finalIndex, which
\* lies in U+AC00..U+D7A3 ((ㅇ, ㅏ, ㄴ) gives 안, U+C548).
C12_ToCharEncodesSyllable ==
    /\ Syllable(HangulBlock(J_NG, J_A, Some(J_N))) = 50504
    /\ call.op = "to_char" =>
          /\ call.block.initial \in LegalInitials
          /\ call.block.vowel \in AllVowels
          /\ result = OkChar(Syllable(call.block))
          /\ result.value >= 44032
          /\ result.value <= 55203

\* C13: whenever the character to_char made of a valid block has been
\* decoded, the decoding has given back that block; and no two valid blocks
\* encode to one character.
C13_DecodeInvertsToChar ==
    /\ call.op = "round_trip" => result = OkBlock(call.block)
    /\ call.op = "to_char" =>
          /\ result # Panic
          /\ \A other \in CodecBlocks :
                to_char(other) = to_char(call.block) => other = call.block

\* C14: a call of as_string leaves the live block state and the finished
\* block sequence as they were, and when the call before it was as_string
\* too (no push or start_new_block between them) it returns what that call
\* returned.
C14_AsStringPureRead ==
    [][call'.op = "as_string" =>
          /\ cur_block' = cur_block
          /\ prev_blocks' = prev_blocks
          /\ call.op = "as_string" => result' = result]_vars

C14_Witness ==
    /\ call.op = "as_string"
    /\ cur_block = ExpectingVowel(J_GG)
    /\ result = OkString(<< J_GG >>)

\* what as_string has to return: one syllable per finished block, in order,
\* then the render of the live state
RenderOf(prev, cur) ==
    [k \in 1..Len(prev) |-> Syllable(prev[k])]
    \o (IF cur.shape = "ExpectingInitial" THEN << >>
        ELSE IF cur.shape \in {"ExpectingDoubleInitialOrVowel", "ExpectingVowel"}
        THEN << cur.i >>
        ELSE << Syllable(HeldBlock(cur)) >>)

\* C15: whenever as_string has been called it has succeeded, and what it
\* returned is one composed syllable per finished block, in order, followed
\* by the render of the live state (nothing for ExpectingInitial, the bare
\* initial for ExpectingDoubleInitialOrVowel and ExpectingVowel, the one
\* composed syllable of initial+vowel(+final) for the four later shapes), so
\* its length is that of the finished sequence plus 0 or 1.
C15_AsStringRendersBlocks ==
    call.op = "as_string" =>
        /\ result = OkString(RenderOf(prev_blocks, cur_block))
        /\ Len(result.value) =
              Len(prev_blocks)
              + (IF cur_block.shape = "ExpectingInitial" THEN 0 ELSE 1)

\* C16: while the live state is ExpectingNextBlock(i, v, f), pushing any of
\* the 14 plain consonants (as a letter or as a character) yields
\* StartNewBlock(that consonant), neither Composable nor InvalidHangul, and
\* leaves the live state ExpectingNextBlock(i, v, f).
C16_ConsonantAfterCompoundFinal ==
    [][cur_block.shape = "ExpectingNextBlock" =>
          /\ \A c \in CONSONANTS :
                /\ push(cur_block, Consonant(c))
                      = Pushed(cur_block, StartNewBlock(Consonant(c)))
                /\ push_char(cur_block, c)
                      = Pushed(cur_block, StartNewBlock(Consonant(c)))
          /\ (call'.op = "push" /\ call'.letter.variant = "Consonant") =>
                /\ result' = StartNewBlock(call'.letter)
                /\ cur_block' = cur_block
          /\ (call'.op = "push_char" /\ call'.ch \in CONSONANTS) =>
                /\ result' = StartNewBlock(Consonant(call'.ch))
                /\ cur_block' = cur_block]_vars

C16_Witness ==
    /\ call = [op |-> "push", letter |-> Consonant(J_R)]
    /\ result = StartNewBlock(Consonant(J_R))
    /\ cur_block = ExpectingNextBlock(J_G, J_A, J_RS)

\* position of a shape in the order ExpectingInitial, ...,
\* ExpectingNextBlock
Rank(shape) ==
    CASE shape = "ExpectingInitial" -> 0
      [] shape = "ExpectingDoubleInitialOrVowel" -> 1
      [] shape = "ExpectingVowel" -> 2
      [] shape = "ExpectingCompositeVowelOrFinal" -> 3
      [] shape = "ExpectingFinal" -> 4
      [] shape = "ExpectingCompositeFinalOrNextBlock" -> 5
      [] shape = "ExpectingNextBlock" -> 6

\* every jamo as the letter the classifier makes of it
JamoLetters ==
    { ClassOf(c) : c \in Jamo }

\* push of the letter on the live state gives one of the three dispositions:
\* Composable with an advance of 1..most shapes, or StartNewBlock or
\* InvalidHangul of the letter with the state kept
C17Rule(cur, letter, most) ==
    LET r == push(cur, letter)
    IN  \/ /\ r.ret = Composable
           /\ Rank(r.cur_block.shape) - Rank(cur.shape) \in 1..most
        \/ /\ r.ret \in {StartNewBlock(letter), InvalidHangul(letter)}
           /\ r.cur_block = cur

\* C17 as stated: in each of the seven shapes and for each letter of the
\* four variants, push yields exactly one of Composable with a state
\* advance, StartNewBlock, InvalidHangul, and a Composable advance moves to
\* the very next shape of the order.
C17_AdvanceToNextShape ==
    \A letter \in JamoLetters : C17Rule(cur_block, letter, 1)

\* C17, amended: in each of the seven shapes and for each letter of the four
\* variants, push yields exactly one of Composable, StartNewBlock,
\* InvalidHangul; a Composable push moves the live state to a later shape of
\* the order, one to three positions ahead, and the other two leave the live
\* state as it was. A push that has been made returned one of the three, and
\* after a Composable one the live state is past ExpectingInitial.
C17_AdvanceToLaterShape ==
    /\ \A letter \in JamoLetters : C17Rule(cur_block, letter, 3)
    /\ call.op = "push" =>
          /\ result \in {Composable, StartNewBlock(call.letter),
                         InvalidHangul(call.letter)}
          /\ result = Composable => Rank(cur_block.shape) >= 1

C17_Witness ==
    /\ call = [op |-> "push", letter |-> CompositeVowel(J_WA)]
    /\ result = Composable
    /\ cur_block = ExpectingFinal(J_G, J_WA)

\* the character a call pushes, whichever of push and push_char it is
PushedChar(c) ==
    IF c.op = "push" THEN c.letter.ch ELSE c.ch

\* a call that pushes a jamo of the set, as a letter or as a character
PushesOneOf(c, set) ==
    \/ c.op = "push" /\ c.letter = ClassOf(c.letter.ch) /\ c.letter.ch \in set
    \/ c.op = "push_char" /\ c.ch \in set

\* the doubled form of the five doubling consonants
Doubled(c) ==
    CASE c = J_G -> J_GG
      [] c = J_D -> J_DD
      [] c = J_B -> J_BB
      [] c = J_S -> J_SS
      [] c = J_J -> J_JJ

\* what the push of plain consonant c has to give on ExpectingInitial and on
\* ExpectingDoubleInitialOrVowel(i)
C18Expected(cur, c) ==
    IF cur.shape = "ExpectingInitial"
    THEN Pushed(ExpectingDoubleInitialOrVowel(c), Composable)
    ELSE IF cur.i = c /\ c \in {J_G, J_D, J_B, J_S, J_J}
    THEN Pushed(ExpectingVowel(Doubled(c)), Composable)
    ELSE Pushed(cur, InvalidHangul(Consonant(c)))

\* C18: a push of a plain consonant c on ExpectingInitial is Composable and
\* gives ExpectingDoubleInitialOrVowel(c); on ExpectingDoubleInitialOrVowel(i)
\* it is Composable with new state ExpectingVowel(doubled i) exactly when
\* i = c is one of ㄱㄷㅂㅅㅈ, and otherwise InvalidHangul(c) with the state
\* left as it was, never StartNewBlock. Compared at every such push made,
\* for the push itself and for all 14 x 14 pairs of pending and pushed
\* consonant.
C18_ConsonantOnInitial ==
    [][(/\ PushesOneOf(call', CONSONANTS)
        /\ cur_block.shape \in {"ExpectingInitial",
                                "ExpectingDoubleInitialOrVowel"}) =>
          /\ result' = C18Expected(cur_block, PushedChar(call')).ret
          /\ cur_block' = C18Expected(cur_block, PushedChar(call')).cur_block
          /\ result'.kind # "StartNewBlock"
          /\ \A c \in CONSONANTS :
                /\ push(ExpectingInitial, Consonant(c))
                      = C18Expected(ExpectingInitial, c)
                /\ \A i \in CONSONANTS :
                      push(ExpectingDoubleInitialOrVowel(i), Consonant(c))
                         = C18Expected(ExpectingDoubleInitialOrVowel(i), c)]_vars

C18_Witness ==
    /\ call = [op |-> "push", letter |-> Consonant(J_G)]
    /\ result = Composable
    /\ cur_block = ExpectingVowel(J_GG)

\* C19: a push of a compound consonant c on ExpectingInitial is Composable
\* with new state ExpectingVowel(c) if and only if c is one of ㄲㄸㅃㅆㅉ; any
\* other compound consonant gets InvalidHangul(c) and the state stays
\* ExpectingInitial. Compared at every such push made, for the push itself
\* and for all 16 compound consonants.
C19_CompoundConsonantOnInitial ==
    [][(/\ PushesOneOf(call', COMPOSITE_CONSONANTS)
        /\ cur_block.shape = "ExpectingInitial") =>
          /\ IF PushedChar(call') \in {J_GG, J_DD, J_BB, J_SS, J_JJ}
             THEN /\ result' = Composable
                  /\ cur_block' = ExpectingVowel(PushedChar(call'))
             ELSE /\ result' = InvalidHangul(CompositeConsonant(PushedChar(call')))
                  /\ cur_block' = ExpectingInitial
          /\ \A c \in COMPOSITE_CONSONANTS :
                push(cur_block, CompositeConsonant(c))
                   = IF c \in {J_GG, J_DD, J_BB, J_SS, J_JJ}
                     THEN Pushed(ExpectingVowel(c), Composable)
                     ELSE Pushed(ExpectingInitial,
                                 InvalidHangul(CompositeConsonant(c)))]_vars

C19_Witness ==
    /\ call = [op |-> "push_char", ch |-> J_RS]
    /\ result = InvalidHangul(CompositeConsonant(J_RS))
    /\ cur_block = ExpectingInitial

\* C20: on ExpectingDoubleInitialOrVowel(i) and on ExpectingVowel(i) the
\* push of any vowel is Composable; a plain vowel v gives
\* ExpectingCompositeVowelOrFinal(i, v), a compound vowel v gives
\* ExpectingFinal(i, v), the initial i unchanged. Compared at every such
\* push made, for the push itself and for all 21 vowels.
C20_VowelAfterInitial ==
    [][(/\ PushesOneOf(call', VOWELS \cup COMPOSITE_VOWELS)
        /\ cur_block.shape \in {"ExpectingDoubleInitialOrVowel",
                                "ExpectingVowel"}) =>
          /\ result' = Composable
          /\ cur_block' = IF PushedChar(call') \in VOWELS
                          THEN ExpectingCompositeVowelOrFinal(cur_block.i,
                                                              PushedChar(call'))
                          ELSE ExpectingFinal(cur_block.i, PushedChar(call'))
          /\ \A v \in VOWELS :
                push(cur_block, Vowel(v))
                   = Pushed(ExpectingCompositeVowelOrFinal(cur_block.i, v),
                            Composable)
          /\ \A v \in COMPOSITE_VOWELS :
                push(cur_block, CompositeVowel(v))
                   = Pushed(ExpectingFinal(cur_block.i, v), Composable)]_vars

C20_Witness ==
    /\ call = [op |-> "push", letter |-> CompositeVowel(J_WA)]
    /\ result = Composable
    /\ cur_block = ExpectingFinal(J_DD, J_WA)

(***************************************************************************)
(* C21..C29                                                                *)
(***************************************************************************)
\* the seven compound-vowel pairs: first vowel, second vowel, fused vowel
VowelPairs ==
    { << J_O, J_A, J_WA >>, << J_O, J_AE, J_WAE >>, << J_O, J_I, J_OE >>,
      << J_U, J_EO, J_WO >>, << J_U, J_E, J_WE >>, << J_U, J_I, J_WI >>,
      << J_EU, J_I, J_UI >> }

\* what the push of plain vowel c has to give on
\* ExpectingCompositeVowelOrFinal(i, v)
C21Expected(cur, c) ==
    IF \E p \in VowelPairs : p[1] = cur.v /\ p[2] = c
    THEN LET p == CHOOSE q \in VowelPairs : q[1] = cur.v /\ q[2] = c
         IN  Pushed(ExpectingFinal(cur.i, p[3]), Composable)
    ELSE Pushed(cur, InvalidHangul(Vowel(c)))

\* C21: a push of a plain vowel c on ExpectingCompositeVowelOrFinal(i, v) is
\* Composable with new state ExpectingFinal(i, fused) exactly when (v, c) is
\* one of the seven compound-vowel pairs, and otherwise InvalidHangul(c),
\* never StartNewBlock, with the state unchanged; a push of any vowel, plain
\* or compound, on ExpectingFinal(i, v) is InvalidHangul with the state
\* unchanged. Compared at every such push made, for the push itself and for
\* all 21 vowels on ExpectingFinal, and in the first block of a word (push
\* reads the live state only) for all 14 x 14 pairs of held and pushed plain
\* vowel.
C21_VowelFusion ==
    [][(/\ PushesOneOf(call', VOWELS \cup COMPOSITE_VOWELS)
        /\ cur_block.shape \in {"ExpectingCompositeVowelOrFinal",
                                "ExpectingFinal"}) =>
          /\ (cur_block.shape = "ExpectingCompositeVowelOrFinal"
                /\ PushedChar(call') \in VOWELS) =>
                /\ result' = C21Expected(cur_block, PushedChar(call')).ret
                /\ cur_block' = C21Expected(cur_block, PushedChar(call')).cur_block
                /\ result'.kind # "StartNewBlock"
          /\ cur_block.shape = "ExpectingFinal" =>
                /\ result' = InvalidHangul(ClassOf(PushedChar(call')))
                /\ cur_block' = cur_block
          /\ prev_blocks = << >> =>
                \A v \in VOWELS, c \in VOWELS :
                   push(ExpectingCompositeVowelOrFinal(cur_block.i, v), Vowel(c))
                      = C21Expected(ExpectingCompositeVowelOrFinal(cur_block.i, v), c)
          /\ \A c \in VOWELS \cup COMPOSITE_VOWELS :
                push(ExpectingFinal(cur_block.i, cur_block.v), ClassOf(c))
                   = Pushed(ExpectingFinal(cur_block.i, cur_block.v),
                            InvalidHangul(ClassOf(c)))]_vars

C21_Witness ==
    /\ call = [op |-> "push", letter |-> Vowel(J_A)]
    /\ result = Composable
    /\ cur_block = ExpectingFinal(J_G, J_WA)

\* C22 as stated: a push of a consonant, plain or compound, that is
\* Composable on ExpectingCompositeVowelOrFinal(i, v) or ExpectingFinal(i, v)
\* leaves the live state ExpectingCompositeFinalOrNextBlock(i, v, f) with f
\* the pushed consonant.
C22_FinalAwaitsCluster ==
    [][(/\ PushesOneOf(call', CONSONANTS \cup COMPOSITE_CONSONANTS)
        /\ cur_block.shape \in {"ExpectingCompositeVowelOrFinal",
                                "ExpectingFinal"}
        /\ result' = Composable) =>
          cur_block' = ExpectingCompositeFinalOrNextBlock(
                           cur_block.i, cur_block.v, PushedChar(call'))]_vars

\* C22, amended: on ExpectingCompositeVowelOrFinal(i, v) and on
\* ExpectingFinal(i, v) a push of a plain consonant f is always Composable
\* and gives ExpectingCompositeFinalOrNextBlock(i, v, f); a push of a
\* compound consonant f that is Composable gives ExpectingNextBlock(i, v, f),
\* the block being closed at once. Compared at every such push made, and for
\* all 14 plain consonants.
C22_PlainFinalAwaitsCluster ==
    [][(/\ PushesOneOf(call', CONSONANTS \cup COMPOSITE_CONSONANTS)
        /\ cur_block.shape \in {"ExpectingCompositeVowelOrFinal",
                                "ExpectingFinal"}) =>
          /\ PushedChar(call') \in CONSONANTS =>
                /\ result' = Composable
                /\ cur_block' = ExpectingCompositeFinalOrNextBlock(
                                    cur_block.i, cur_block.v, PushedChar(call'))
          /\ (PushedChar(call') \in COMPOSITE_CONSONANTS
                /\ result' = Composable) =>
                /\ PushedChar(call') \in LegalFinals
                /\ cur_block' = ExpectingNextBlock(
                                    cur_block.i, cur_block.v, PushedChar(call'))
          /\ \A c \in CONSONANTS :
                push(cur_block, Consonant(c))
                   = Pushed(ExpectingCompositeFinalOrNextBlock(
                                cur_block.i, cur_block.v, c), Composable)]_vars

C22_Witness ==
    /\ call = [op |-> "push", letter |-> Consonant(J_R)]
    /\ result = Composable
    /\ cur_block = ExpectingCompositeFinalOrNextBlock(J_GG, J_WA, J_R)

\* the 13 compound finals
CompoundFinals ==
    {J_GG, J_GS, J_NJ, J_NH, J_RG, J_RM, J_RB, J_RS, J_RT, J_RP, J_RH, J_BS,
     J_SS}

\* what the push of compound consonant c has to give on
\* ExpectingCompositeVowelOrFinal(i, v) and ExpectingFinal(i, v)
C23Expected(cur, c) ==
    IF c \in CompoundFinals
    THEN Pushed(ExpectingNextBlock(cur.i, cur.v, c), Composable)
    ELSE IF c \in {J_DD, J_BB, J_JJ}
    THEN Pushed(cur, StartNewBlock(CompositeConsonant(c)))
    ELSE Pushed(cur, InvalidHangul(CompositeConsonant(c)))

\* C23: a push of a compound consonant c on
\* ExpectingCompositeVowelOrFinal(i, v) or ExpectingFinal(i, v) is Composable
\* with new state ExpectingNextBlock(i, v, c) and the finished sequence
\* unchanged when c is a legal block-final; is StartNewBlock(c) with the
\* state unchanged when c is no legal final but a legal initial (ㄸㅃㅉ); and
\* is InvalidHangul(c) otherwise. Compared at every such push made, for the
\* push itself and for all 16 compound consonants.
C23_CompoundConsonantAsFinal ==
    [][(/\ PushesOneOf(call', COMPOSITE_CONSONANTS)
        /\ cur_block.shape \in {"ExpectingCompositeVowelOrFinal",
                                "ExpectingFinal"}) =>
          /\ result' = C23Expected(cur_block, PushedChar(call')).ret
          /\ cur_block' = C23Expected(cur_block, PushedChar(call')).cur_block
          /\ prev_blocks' = prev_blocks
          /\ \A c \in COMPOSITE_CONSONANTS :
                push(cur_block, CompositeConsonant(c))
                   = C23Expected(cur_block, c)]_vars

C23_Witness ==
    /\ call = [op |-> "push", letter |-> CompositeConsonant(J_DD)]
    /\ result = StartNewBlock(CompositeConsonant(J_DD))
    /\ cur_block = ExpectingFinal(J_G, J_WA)

\* the thirteen compound-final pairs: held final, pushed consonant, fused
\* final
FinalPairs ==
    { << J_G, J_G, J_GG >>, << J_G, J_S, J_GS >>, << J_N, J_J, J_NJ >>,
      << J_N, J_H, J_NH >>, << J_R, J_G, J_RG >>, << J_R, J_M, J_RM >>,
      << J_R, J_B, J_RB >>, << J_R, J_S, J_RS >>, << J_R, J_T, J_RT >>,
      << J_R, J_P, J_RP >>, << J_R, J_H, J_RH >>, << J_B, J_S, J_BS >>,
      << J_S, J_S, J_SS >> }

\* what the push of plain consonant c has to give on
\* ExpectingCompositeFinalOrNextBlock(i, v, f)
C24Expected(cur, c) ==
    IF \E p \in FinalPairs : p[1] = cur.f /\ p[2] = c
    THEN LET p == CHOOSE q \in FinalPairs : q[1] = cur.f /\ q[2] = c
         IN  Pushed(ExpectingNextBlock(cur.i, cur.v, p[3]), Composable)
    ELSE Pushed(cur, StartNewBlock(Consonant(c)))

\* C24: a push of a plain consonant c on
\* ExpectingCompositeFinalOrNextBlock(i, v, f) is Composable with new state
\* ExpectingNextBlock(i, v, fused) when (f, c) is one of the thirteen
\* compound-final pairs, and in every other case StartNewBlock(c) with the
\* state unchanged; it is never InvalidHangul. Compared at every such push
\* made, and in the first block of a word for all 14 x 14 pairs of held
\* final and pushed consonant.
C24_FinalClusterFusion ==
    [][(/\ PushesOneOf(call', CONSONANTS)
        /\ cur_block.shape = "ExpectingCompositeFinalOrNextBlock") =>
          /\ Cardinality(FinalPairs) = 13
          /\ result' = C24Expected(cur_block, PushedChar(call')).ret
          /\ cur_block' = C24Expected(cur_block, PushedChar(call')).cur_block
          /\ result'.kind # "InvalidHangul"
          /\ prev_blocks = << >> =>
                \A f \in CONSONANTS, c \in CONSONANTS :
                   LET cur == ExpectingCompositeFinalOrNextBlock(
                                  cur_block.i, cur_block.v, f)
                   IN  push(cur, Consonant(c)) = C24Expected(cur, c)]_vars

C24_Witness ==
    /\ call = [op |-> "push", letter |-> Consonant(J_G)]
    /\ result = Composable
    /\ cur_block = ExpectingNextBlock(J_G, J_A, J_RG)

\* C25: a push of a compound consonant c on
\* ExpectingCompositeFinalOrNextBlock(i, v, f) is StartNewBlock(c) when c is
\* a legal block-initial (ㄲㄸㅃㅆㅉ) and InvalidHangul(c) when it is not; in
\* both cases the live state is unchanged.
C25_CompoundConsonantAfterFinal ==
    [][(/\ PushesOneOf(call', COMPOSITE_CONSONANTS)
        /\ cur_block.shape = "ExpectingCompositeFinalOrNextBlock") =>
          /\ cur_block' = cur_block
          /\ result' =
                IF PushedChar(call') \in {J_GG, J_DD, J_BB, J_SS, J_JJ}
                THEN StartNewBlock(CompositeConsonant(PushedChar(call')))
                ELSE InvalidHangul(CompositeConsonant(PushedChar(call')))]_vars

\* C26: a push of a compound vowel is Composable exactly on
\* ExpectingDoubleInitialOrVowel and ExpectingVowel; on ExpectingInitial,
\* ExpectingCompositeVowelOrFinal and ExpectingFinal it is InvalidHangul with
\* the state unchanged; on the two shapes that hold a final consonant it is
\* not Composable and the state is unchanged. Compared at every such push
\* made, for the push itself and for all 7 compound vowels.
C26_CompoundVowelPlaces ==
    [][PushesOneOf(call', COMPOSITE_VOWELS) =>
          /\ result' = Composable <=>
                cur_block.shape \in {"ExpectingDoubleInitialOrVowel",
                                     "ExpectingVowel"}
          /\ cur_block.shape \in {"ExpectingInitial",
                                  "ExpectingCompositeVowelOrFinal",
                                  "ExpectingFinal"} =>
                /\ result' = InvalidHangul(CompositeVowel(PushedChar(call')))
                /\ cur_block' = cur_block
          /\ HoldsFinal(cur_block) => cur_block' = cur_block
          /\ \A v \in COMPOSITE_VOWELS :
                LET r == push(cur_block, CompositeVowel(v))
                IN  /\ r.ret = Composable <=>
                          cur_block.shape \in {"ExpectingDoubleInitialOrVowel",
                                               "ExpectingVowel"}
                    /\ cur_block.shape \in {"ExpectingInitial",
                                            "ExpectingCompositeVowelOrFinal",
                                            "ExpectingFinal"} =>
                          r = Pushed(cur_block, InvalidHangul(CompositeVowel(v)))
                    /\ HoldsFinal(cur_block) => r.cur_block = cur_block]_vars

C26_Witness ==
    /\ call = [op |-> "push_char", ch |-> J_WA]
    /\ result = InvalidHangul(CompositeVowel(J_WA))
    /\ cur_block = ExpectingCompositeVowelOrFinal(J_G, J_O)

\* C27: a Composable push moves the live state to a strictly later shape of
\* the seven-shape order and no push moves it to an earlier one; the shape
\* goes back only in a start_new_block that succeeds; a run of pushes with
\* no start_new_block in between holds at most six Composable dispositions;
\* and on ExpectingNextBlock no push of any letter is Composable.
C27_ComposableOnlyForward ==
    [][/\ IsPushCall(call') =>
             /\ Rank(cur_block'.shape) >= Rank(cur_block.shape)
             /\ result' = Composable =>
                   Rank(cur_block'.shape) > Rank(cur_block.shape)
       /\ Rank(cur_block'.shape) < Rank(cur_block.shape) =>
             /\ call'.op = "start_new_block"
             /\ result' = Ok
       /\ harness'.composable <= 6
       /\ harness'.composable <= Rank(cur_block'.shape)
       /\ cur_block.shape = "ExpectingNextBlock" =>
             /\ IsPushCall(call') => result' # Composable
             /\ \A letter \in JamoLetters :
                   push(cur_block, letter).ret # Composable]_vars

C27_Witness ==
    /\ harness.composable = 6
    /\ cur_block = ExpectingNextBlock(J_GG, J_WA, J_RG)
    /\ call = [op |-> "push", letter |-> Consonant(J_G)]
    /\ result = Composable

\* the five doubling pairs: consonant, consonant, doubled consonant
DoublePairs ==
    { << J_G, J_G, J_GG >>, << J_D, J_D, J_DD >>, << J_B, J_B, J_BB >>,
      << J_S, J_S, J_SS >>, << J_J, J_J, J_JJ >> }

\* every fusion of two plain letters a, b into a compound letter ab
Fusions ==
    { << Consonant(p[1]), Consonant(p[2]), CompositeConsonant(p[3]) >> :
          p \in DoublePairs \cup FinalPairs }
    \cup { << Vowel(p[1]), Vowel(p[2]), CompositeVowel(p[3]) >> :
              p \in VowelPairs }

\* from live state cur, pushing a then b is Composable twice exactly when
\* pushing ab is Composable, and then both end in the same live state
C28Rule(cur, a, b, ab) ==
    LET first == push(cur, a)
        second == push(first.cur_block, b)
        whole == push(cur, ab)
    IN  /\ (first.ret = Composable /\ second.ret = Composable)
              <=> whole.ret = Composable
        /\ whole.ret = Composable => second.cur_block = whole.cur_block

\* C28: for every live state a push is made from in the first block of a
\* word (push reads the live state only) and every pair of plain
\* letters a, b that a combination table fuses into ab, pushing a then b is
\* Composable twice if and only if pushing ab is Composable, and both paths
\* end in the same live state; a compound letter that was pushed and was
\* Composable left the live state that pushing its two parts would have
\* left, and the finished sequence as it was.
C28_PrecomposedEqualsIncremental ==
    [][IsPushCall(call') =>
          /\ prev_blocks' = prev_blocks
          /\ prev_blocks = << >> =>
                \A p \in Fusions : C28Rule(cur_block, p[1], p[2], p[3])
          /\ (/\ PushesOneOf(call', COMPOSITE_CONSONANTS \cup COMPOSITE_VOWELS)
              /\ result' = Composable) =>
                \E p \in Fusions :
                   /\ p[3].ch = PushedChar(call')
                   /\ push(cur_block, p[1]).ret = Composable
                   /\ push(push(cur_block, p[1]).cur_block, p[2])
                         = Pushed(cur_block', Composable)]_vars

C28_Witness ==
    /\ call = [op |-> "push", letter |-> CompositeConsonant(J_GG)]
    /\ result = Composable
    /\ cur_block = ExpectingNextBlock(J_GG, J_WA, J_GG)

\* C29: a live state that has left ExpectingInitial never is
\* ExpectingInitial again, whatever is called; a Composable push leaves a
\* live state other than ExpectingInitial; and whenever the finished
\* sequence is not empty the live state holds at least an initial consonant.
C29_InitialOnlyAtWordStart ==
    [][/\ cur_block.shape # "ExpectingInitial" =>
             cur_block'.shape # "ExpectingInitial"
       /\ (IsPushCall(call') /\ result' = Composable) =>
             cur_block'.shape # "ExpectingInitial"
       /\ Len(prev_blocks') > 0 =>
             /\ cur_block'.shape # "ExpectingInitial"
             /\ cur_block'.i \in LegalInitials]_vars

C29_Witness ==
    /\ call = [op |-> "start_new_block", letter |-> Consonant(J_R)]
    /\ result = Ok
    /\ prev_blocks = << HangulBlock(J_G, J_A, None) >>
    /\ cur_block = ExpectingDoubleInitialOrVowel(J_R)

====
